---- MODULE Spec2Model ----
(***************************************************************************)
(* A model of extension/android/jni/jni_layer.cpp: the JNI bridge between  *)
(* the managed EValue/Tensor objects and the native Module and Runner.     *)
(*                                                                         *)
(* Managed values are records with the type code and one field per        *)
(* payload; native values are records with a tag and one field per        *)
(* payload.  A std::string is a sequence of bytes, a Java string a record *)
(* holding its chars.  A double is a record [num, den].                    *)
(***************************************************************************)
EXTENDS Integers, Sequences, FiniteSets, TLC

\* ----------------------------------------------------------------- bounds
MaxInputs == 2
MaxOutputs == 2
MaxTokens == 3

\* ------------------------------------------------------ program constants
kTypeCodeTensor == 1
kTypeCodeString == 2
kTypeCodeDouble == 3
kTypeCodeInt == 4
kTypeCodeBool == 5
GenerateSeqLen == 128

\* The success status of the native runtime (Error::Ok).
ErrorOk == 0

\* ------------------------------------------------------------ arithmetic
\* A 32-bit int is an integer of -2^31 .. 2^31-1; no intermediate value of
\* the operators below leaves that range.
\* x * y modulo 2^16 for x, y in 0 .. 2^16-1, by the two bytes of y.
MulMod16(x, y) ==
  (x * (y % 256) + ((x * (y \div 256)) % 256) * 256) % 65536

\* floor(x * y / 2^16) modulo 2^16 for x, y in 0 .. 2^16-1.
MulHigh16(x, y) ==
  LET p1 == x * (y \div 256)
      p0 == x * (y % 256)
  IN  (p1 \div 256 + ((p1 % 256) * 256 + p0) \div 65536) % 65536

\* `numel *= d` for an int numel and a jlong d in 0 .. 2^31-1: the product is
\* formed in 64 bits and narrowed to int, i.e. numel * d modulo 2^32, here
\* by the 16-bit halves of the two factors.
MulWrap32(a, d) ==
  LET ah == (a \div 65536) % 65536
      al == a % 65536
      dh == d \div 65536
      dl == d % 65536
      lo == MulMod16(al, dl)
      hi == (MulHigh16(al, dl) + MulMod16(ah, dl) + MulMod16(al, dh)) % 65536
  IN  IF hi >= 32768 THEN (hi - 65536) * 65536 + lo ELSE hi * 65536 + lo

\* A double p/q.
Dbl(p, q) == [num |-> p, den |-> q]

\* --------------------------------------------------------------- values
\* facebook::jni::make_jstring: the Java string of a std::string (bytes).
make_jstring(s) == [chars |-> s]
NoJString == make_jstring(<<>>)

NoTensor == [dtype |-> 0, shape |-> <<>>, capacity |-> 0, data |-> 0]
NoDouble == Dbl(0, 1)

\* The managed EValue: mTypeCode and the payload it holds.
JEValueOf(code, t, s, d, l, b) ==
  [mTypeCode |-> code, tensor |-> t, str |-> s, dbl |-> d, long |-> l, bool |-> b]

JTensor(dtype, shape, capacity, data) ==
  [dtype |-> dtype, shape |-> shape, capacity |-> capacity, data |-> data]

JFromTensor(t) == JEValueOf(kTypeCodeTensor, t, NoJString, NoDouble, 0, FALSE)
JFromString(s) == JEValueOf(kTypeCodeString, NoTensor, s, NoDouble, 0, FALSE)
JFromDouble(d) == JEValueOf(kTypeCodeDouble, NoTensor, NoJString, d, 0, FALSE)
JFromLong(l) == JEValueOf(kTypeCodeInt, NoTensor, NoJString, NoDouble, l, FALSE)
JFromBool(b) == JEValueOf(kTypeCodeBool, NoTensor, NoJString, NoDouble, 0, b)

\* The native EValue: its tag and the payload it holds.
NoNativeTensor == [scalar_type |-> 0, sizes |-> <<>>, data |-> 0]

EValueOf(tag, t, s, d, i, b) ==
  [tag |-> tag, tensor |-> t, str |-> s, dbl |-> d, int |-> i, bool |-> b]

NativeTensor(st, sizes, data) ==
  [scalar_type |-> st, sizes |-> sizes, data |-> data]

EValueTensor(t) == EValueOf("Tensor", t, <<>>, NoDouble, 0, FALSE)
EValueString(s) == EValueOf("String", NoNativeTensor, s, NoDouble, 0, FALSE)
EValueDouble(d) == EValueOf("Double", NoNativeTensor, <<>>, d, 0, FALSE)
EValueInt(i) == EValueOf("Int", NoNativeTensor, <<>>, NoDouble, i, FALSE)
EValueBool(b) == EValueOf("Bool", NoNativeTensor, <<>>, NoDouble, 0, b)
EValueNone == EValueOf("None", NoNativeTensor, <<>>, NoDouble, 0, FALSE)

\* The numeric value of evalue.tag.
TagCode(tag) ==
  CASE tag = "None" -> 0
    [] tag = "Tensor" -> 1
    [] tag = "String" -> 2
    [] tag = "Double" -> 3
    [] tag = "Int" -> 4
    [] tag = "Bool" -> 5

\* An error raised to the managed caller.
JavaException(kind, method, a, b) ==
  [kind |-> kind, method |-> method, a |-> a, b |-> b]

NoError == JavaException("none", "", 0, 0)

\* ------------------------------------------- the native tensor (external)
\* The two maps of jni_layer_constants.h, between the runtime's ScalarType
\* and the managed dtype code: Long <-> int64, Float <-> float32.
scalar_type_to_java_dtype == (4 :> 5) @@ (6 :> 4)
java_dtype_to_scalar_type == (5 :> 4) @@ (4 :> 6)

\* sizeof one element of a scalar type.
ElementSize(st) == CASE st = 4 -> 8 [] st = 6 -> 4 [] OTHER -> 2

RECURSIVE TensorNumel(_)
\* tensor.numel(): the product of the sizes.
TensorNumel(sizes) ==
  IF sizes = <<>> THEN 1 ELSE Head(sizes) * TensorNumel(Tail(sizes))

\* tensor.nbytes().
TensorNbytes(t) == TensorNumel(t.sizes) * ElementSize(t.scalar_type)

\* --------------------------------------------------------------- codec
\* TensorHybrid::newJTensorFromTensor: the managed Tensor of a native one,
\* or the exception for a scalar type with no managed dtype.
newJTensorFromTensor(tensor) ==
  IF tensor.scalar_type \notin DOMAIN scalar_type_to_java_dtype
    THEN [ok |-> FALSE,
          err |-> JavaException("UnsupportedScalarType", "", tensor.scalar_type, 0),
          val |-> NoTensor]
    ELSE [ok |-> TRUE,
          err |-> NoError,
          val |-> JTensor(scalar_type_to_java_dtype[tensor.scalar_type],
                          [i \in 1..Len(tensor.sizes) |-> tensor.sizes[i]],
                          TensorNbytes(tensor),
                          tensor.data)]

\* The managed EValue built by the static factory EValue.from(...).
JEValueFrom(tag, t, s, d, l, b) ==
  JEValueOf(TagCode(tag), t, s, d, l, b)

\* JEValue::newJEValueFromEValue: the managed value of a native one, or the
\* exception raised for it.
newJEValueFromEValue(evalue) ==
  IF evalue.tag = "Tensor" THEN
    LET jt == newJTensorFromTensor(evalue.tensor)
    IN  IF jt.ok
          THEN [ok |-> TRUE, err |-> NoError,
                val |-> JEValueFrom("Tensor", jt.val, NoJString, NoDouble, 0, FALSE)]
          ELSE [ok |-> FALSE, err |-> jt.err, val |-> JFromLong(0)]
  ELSE IF evalue.tag = "Int" THEN
    [ok |-> TRUE, err |-> NoError,
     val |-> JEValueFrom("Int", NoTensor, NoJString, NoDouble, evalue.int, FALSE)]
  ELSE IF evalue.tag = "Double" THEN
    [ok |-> TRUE, err |-> NoError,
     val |-> JEValueFrom("Double", NoTensor, NoJString, evalue.dbl, 0, FALSE)]
  ELSE IF evalue.tag = "Bool" THEN
    [ok |-> TRUE, err |-> NoError,
     val |-> JEValueFrom("Bool", NoTensor, NoJString, NoDouble, 0, evalue.bool)]
  ELSE IF evalue.tag = "String" THEN
    [ok |-> TRUE, err |-> NoError,
     val |-> JEValueFrom("String", NoTensor, make_jstring(evalue.str),
                         NoDouble, 0, FALSE)]
  ELSE
    [ok |-> FALSE,
     err |-> JavaException("UnsupportedEValueType", "", TagCode(evalue.tag), 0),
     val |-> JFromLong(0)]

RECURSIVE NumelLoop(_, _, _)
\* The loop `for (i = rank - 1; i >= 0; --i) numel *= shapeArr[i]` from
\* index i down, on the int numel.
NumelLoop(shapeArr, i, numel) ==
  IF i = 0 THEN numel
  ELSE NumelLoop(shapeArr, i - 1, MulWrap32(numel, shapeArr[i]))

NoManagedTensor == [data |-> 0, sizes |-> <<>>, scalar_type |-> 0]

\* JEValue::JEValueToTensorImpl: the ManagedTensor aliasing the buffer of a
\* managed tensor value, or the exception raised for it.
JEValueToTensorImpl(jev) ==
  IF jev.mTypeCode = kTypeCodeTensor THEN
    LET jtensor == jev.tensor
        jdtype == jtensor.dtype
        jshape == jtensor.shape
        rank == Len(jshape)
        shape_vec == [i \in 1..rank |-> jshape[i]]
        numel == NumelLoop(jshape, rank, 1)
        dataCapacity == jtensor.capacity
    IN  IF jdtype \notin DOMAIN java_dtype_to_scalar_type
          THEN [ok |-> FALSE,
                err |-> JavaException("UnknownTensorDtype", "", jdtype, 0),
                val |-> NoManagedTensor]
          ELSE IF dataCapacity # numel
            THEN [ok |-> FALSE,
                  err |-> JavaException("ShapeMismatch", "", numel, dataCapacity),
                  val |-> NoManagedTensor]
            ELSE [ok |-> TRUE,
                  err |-> NoError,
                  val |-> [data |-> jtensor.data,
                           sizes |-> shape_vec,
                           scalar_type |-> java_dtype_to_scalar_type[jdtype]]]
  ELSE
    [ok |-> FALSE,
     err |-> JavaException("UnknownEValueTypeCode", "", jev.mTypeCode, 0),
     val |-> NoManagedTensor]

\* ManagedTensor::get_aliasing_tensor.
get_aliasing_tensor(mt) == NativeTensor(mt.scalar_type, mt.sizes, mt.data)

\* ------------------------------------------------------- method invoker
NoDecoded == [ok |-> TRUE, err |-> NoError, evalues |-> <<>>, managed_tensors |-> <<>>]

RECURSIVE DecodeFrom(_, _, _)
\* The loop of execute_method over jinputs from element i on: the evalues
\* and managed_tensors accumulated, or the exception that ended it.
DecodeFrom(jinputs, i, acc) ==
  IF i > Len(jinputs) THEN acc
  ELSE
    LET jevalue == jinputs[i]
        typeCode == jevalue.mTypeCode
    IN  IF typeCode = kTypeCodeTensor THEN
          LET mt == JEValueToTensorImpl(jevalue)
          IN  IF ~mt.ok
                THEN [acc EXCEPT !.ok = FALSE, !.err = mt.err]
                ELSE DecodeFrom(jinputs, i + 1,
                       [acc EXCEPT
                          !.managed_tensors = Append(@, mt.val),
                          !.evalues = Append(@, EValueTensor(get_aliasing_tensor(mt.val)))])
        ELSE IF typeCode = kTypeCodeInt THEN
          \* int64_t value = jevalue->getFieldValue(typeCodeField)
          DecodeFrom(jinputs, i + 1,
            [acc EXCEPT !.evalues = Append(@, EValueInt(typeCode))])
        ELSE IF typeCode = kTypeCodeDouble THEN
          \* double value = jevalue->getFieldValue(typeCodeField)
          DecodeFrom(jinputs, i + 1,
            [acc EXCEPT !.evalues = Append(@, EValueDouble(Dbl(typeCode, 1)))])
        ELSE IF typeCode = kTypeCodeBool THEN
          \* bool value = jevalue->getFieldValue(typeCodeField)
          DecodeFrom(jinputs, i + 1,
            [acc EXCEPT !.evalues = Append(@, EValueBool(typeCode # 0))])
        ELSE DecodeFrom(jinputs, i + 1, acc)

\* Lines 289-313 of execute_method: the decoding of all the inputs.
DecodeInputs(jinputs) == DecodeFrom(jinputs, 1, NoDecoded)

\* Lines 329-336: the exception for a result that is not ok.
ExecutionFailure(method, result) ==
  JavaException("ExecutionFailed", method, result.error, 0)

RECURSIVE EncodeFrom(_, _, _)
\* The loop of lines 341-344 from element i on: jresult filled so far, or
\* the exception newJEValueFromEValue raised.
EncodeFrom(values, i, acc) ==
  IF i > Len(values) THEN acc
  ELSE LET jevalue == newJEValueFromEValue(values[i])
       IN  IF ~jevalue.ok
             THEN [ok |-> FALSE, err |-> jevalue.err, jresult |-> <<>>]
             ELSE EncodeFrom(values, i + 1,
                    [acc EXCEPT !.jresult = Append(@, jevalue.val)])

\* The encoding loop storing element i at the mirrored index.
EncodeResults_mirrored(values) ==
  LET enc == EncodeFrom(values, 1, [ok |-> TRUE, err |-> NoError, jresult |-> <<>>])
  IN  [enc EXCEPT !.jresult =
         [i \in 1..Len(enc.jresult) |-> enc.jresult[Len(enc.jresult) + 1 - i]]]

\* Lines 338-346: the managed array of the values the native call returned.
EncodeResults(values) ==
  EncodeFrom(values, 1, [ok |-> TRUE, err |-> NoError, jresult |-> <<>>])

NoResult == [error |-> ErrorOk, values |-> <<>>]

\* What a call of execute_method leaves: whether module_->execute was
\* called, how often and with which arguments, the tensor views made, the
\* exceptions raised, and the array returned (when it returned).
Outcome(invoked, calls, evalues, managed_tensors, errors, returned, jresult) ==
  [invoked |-> invoked, calls |-> calls, evalues |-> evalues,
   managed_tensors |-> managed_tensors, errors |-> errors,
   returned |-> returned, jresult |-> jresult]

NoOutcome == Outcome(FALSE, 0, <<>>, <<>>, <<>>, FALSE, <<>>)

\* execute_method without the `if (!result.ok())` branch.
execute_method_unchecked(method, jinputs, result) ==
  LET dec == DecodeInputs(jinputs)
  IN  IF ~dec.ok
        THEN Outcome(FALSE, 0, dec.evalues, dec.managed_tensors,
                     <<dec.err>>, FALSE, <<>>)
        ELSE LET enc == EncodeResults(result.values)
             IN  IF ~enc.ok
                   THEN Outcome(TRUE, 1, dec.evalues, dec.managed_tensors,
                                <<enc.err>>, FALSE, <<>>)
                   ELSE Outcome(TRUE, 1, dec.evalues, dec.managed_tensors,
                                <<>>, TRUE, enc.jresult)

\* ExecuTorchJni::execute_method, given the result module_->execute gives
\* for the decoded arguments.
execute_method(method, jinputs, result) ==
  LET dec == DecodeInputs(jinputs)
  IN  IF ~dec.ok
        THEN Outcome(FALSE, 0, dec.evalues, dec.managed_tensors,
                     <<dec.err>>, FALSE, <<>>)
        ELSE IF result.error # ErrorOk
          THEN Outcome(TRUE, 1, dec.evalues, dec.managed_tensors,
                       <<ExecutionFailure(method, result)>>, FALSE, <<>>)
          ELSE LET enc == EncodeResults(result.values)
               IN  IF ~enc.ok
                     THEN Outcome(TRUE, 1, dec.evalues, dec.managed_tensors,
                                  <<enc.err>>, FALSE, <<>>)
                     ELSE Outcome(TRUE, 1, dec.evalues, dec.managed_tensors,
                                  <<>>, TRUE, enc.jresult)

\* ExecuTorchJni::load_method: the status as a jint.
load_method(status) == status

\* ------------------------------------------------- the module (external)
\* The methods of the loaded program, and the names a caller may pass.
ModuleMethods == {"forward"}
MethodNames == {"forward", "missing"}

\* The values a method of the program may return.
OutputValues ==
  { EValueInt(9),
    EValueDouble(Dbl(5, 2)),
    EValueBool(TRUE),
    EValueString(<<104, 105>>),
    EValueTensor(NativeTensor(6, <<2, 3>>, 3)),
    EValueTensor(NativeTensor(5, <<2>>, 4)),
    EValueNone }

SeqsUpTo(S, n) == UNION { [1..k -> S] : k \in 0..n }

\* Module::execute(method, evalues): an error status (always one for a
\* method the program does not have), or the values returned.
ModuleExecute(method, evalues) ==
  IF method \notin ModuleMethods
    THEN { [error |-> 18, values |-> <<>>] }
    ELSE { [error |-> 1, values |-> <<>>] }
         \cup { [error |-> ErrorOk, values |-> v] : v \in SeqsUpTo(OutputValues, MaxOutputs) }

\* Module::load_method(method): the status it returns.
ModuleLoadMethod(method) ==
  IF method \notin ModuleMethods THEN {18} ELSE {ErrorOk, 1}

\* ------------------------------------------------- the managed callers
\* The managed values a caller passes to forward and execute.
InputValues ==
  { JFromTensor(JTensor(4, <<2, 3>>, 6, 1)),
    JFromTensor(JTensor(4, <<2, 3>>, 4, 1)),
    JFromTensor(JTensor(5, <<65536, 65536>>, 0, 2)),
    JFromTensor(JTensor(9, <<2>>, 2, 1)),
    JFromTensor(JTensor(9, <<2>>, 3, 1)),
    JFromLong(7),
    JFromDouble(Dbl(3, 2)),
    JFromBool(FALSE),
    JFromString(make_jstring(<<104>>)),
    JEValueOf(6, NoTensor, NoJString, NoDouble, 0, FALSE) }

Request(op, method, inputs) == [op |-> op, method |-> method, inputs |-> inputs]

Requests ==
  { Request("forward", "forward", i) : i \in SeqsUpTo(InputValues, MaxInputs) }
  \cup { Request("execute", m, i) : m \in MethodNames, i \in SeqsUpTo(InputValues, MaxInputs) }
  \cup { Request("loadMethod", m, <<>>) : m \in MethodNames }

NoRequest == Request("none", "", <<>>)

\* ------------------------------------------------------------ the state
VARIABLES
  jni_init_function_registry, \* the registration functions, in push order
  registered,                 \* the <<class, method>> pairs in the JNI method table
  initRuns,                   \* how often each registration function has run
  loaded,                     \* JNI_OnLoad has run
  request,                    \* the managed call on the module wrapper
  pc,                         \* "idle" before that call, "done" after it, "off" if none
  result,                     \* what module_->execute returned
  outcome,                    \* what execute_method left
  native_status,              \* the statuses load_method's native call returned
  load_method_ret             \* the jints loadMethod returned

mvars == <<jni_init_function_registry, registered, initRuns, loaded,
           request, pc, result, outcome, native_status, load_method_ret>>

VARIABLES
  lpc,            \* generate: "idle", "running", "stats", "returning", "done"; "off" if none
  plan,           \* the texts the runner emits when it is not stopped
  final_stats,    \* the statistics the runner reports, <<>> when it reports none
  runner_status,  \* the status Runner::generate returns
  emitted,        \* the texts the runner has passed to its token callback
  stats_emitted,  \* how many statistics events the runner has raised
  listener,       \* the calls made on the managed listener
  shouldStop,     \* the runner's stop flag
  stop_seen,      \* stop was called while generate was in flight
  generate_ret,   \* the jints generate returned
  load_status,    \* the statuses Runner::load returned
  load_ret        \* the jints load returned

lvars == <<lpc, plan, final_stats, runner_status, emitted, stats_emitted,
           listener, shouldStop, stop_seen, generate_ret, load_status, load_ret>>

vars == <<mvars, lvars>>

\* ---------------------------------------------------------- registration
\* ExecuTorchJni::registerNatives.
ExecuTorchJni_registerNatives ==
  { <<"NativePeer", m>> : m \in {"initHybrid", "forward", "execute", "loadMethod"} }

\* ExecuTorchLlamaJni::registerNatives.
ExecuTorchLlamaJni_registerNatives ==
  { <<"LlamaModule", m>> : m \in {"initHybrid", "generate", "stop", "load"} }

RegistrationFunctions == {"ExecuTorchJni::registerNatives", "ExecuTorchLlamaJni::registerNatives"}

\* The method-table entries a registration function adds when called.
CallRegistration(f) ==
  IF f = "ExecuTorchJni::registerNatives" THEN ExecuTorchJni_registerNatives
  ELSE ExecuTorchLlamaJni_registerNatives

\* The registry after static initialization: the one call of
\* register_jni_init_function in the file.
StaticInitRegistry == << "ExecuTorchJni::registerNatives" >>

\* The loop of JNI_OnLoad: the method table after every function of the
\* registry has been called, and how often each function has then run.
RegisteredAfter(registry, table) ==
  table \cup UNION { CallRegistration(registry[i]) : i \in DOMAIN registry }

RunsAfter(registry, runs) ==
  [f \in RegistrationFunctions |->
     runs[f] + Cardinality({ i \in DOMAIN registry : registry[i] = f })]

\* JNI_OnLoad, called once when the library is loaded.
JNI_OnLoad ==
  /\ ~loaded
  /\ loaded' = TRUE
  /\ registered' = RegisteredAfter(jni_init_function_registry, registered)
  /\ initRuns' = RunsAfter(jni_init_function_registry, initRuns)
  /\ UNCHANGED <<jni_init_function_registry, request, pc, result, outcome,
                 native_status, load_method_ret>>
  /\ UNCHANGED lvars

\* ------------------------------------------------------ module wrapper
\* The managed side can call a native method of NativePeer once the method
\* table holds it.
Callable(m) == <<"NativePeer", m>> \in registered

\* ExecuTorchJni::execute(methodName, jinputs).
Execute ==
  /\ pc = "idle"
  /\ request.op = "execute"
  /\ Callable("execute")
  /\ \E r \in (IF DecodeInputs(request.inputs).ok
                 THEN ModuleExecute(request.method, DecodeInputs(request.inputs).evalues)
                 ELSE {NoResult}) :
       /\ result' = r
       /\ outcome' = execute_method(request.method, request.inputs, r)
  /\ pc' = "done"
  /\ UNCHANGED <<jni_init_function_registry, registered, initRuns, loaded,
                 request, native_status, load_method_ret>>
  /\ UNCHANGED lvars

\* ExecuTorchJni::forward(jinputs): execute_method("forward", jinputs).
Forward ==
  /\ pc = "idle"
  /\ request.op = "forward"
  /\ Callable("forward")
  /\ \E r \in (IF DecodeInputs(request.inputs).ok
                 THEN ModuleExecute("forward", DecodeInputs(request.inputs).evalues)
                 ELSE {NoResult}) :
       /\ result' = r
       /\ outcome' = execute_method("forward", request.inputs, r)
  /\ pc' = "done"
  /\ UNCHANGED <<jni_init_function_registry, registered, initRuns, loaded,
                 request, native_status, load_method_ret>>
  /\ UNCHANGED lvars

\* ExecuTorchJni::load_method(methodName).
LoadMethod ==
  /\ pc = "idle"
  /\ request.op = "loadMethod"
  /\ Callable("loadMethod")
  /\ \E st \in ModuleLoadMethod(request.method) :
       /\ native_status' = <<st>>
       /\ load_method_ret' = <<load_method(st)>>
  /\ pc' = "done"
  /\ UNCHANGED <<jni_init_function_registry, registered, initRuns, loaded,
                 request, result, outcome>>
  /\ UNCHANGED lvars

\* --------------------------------------------------------- the callback
\* A jfloat: a finite p/q in lowest terms (q > 0), or an infinity or NaN.
Flt(kind, p, q) == [kind |-> kind, num |-> p, den |-> q]
NoFlt == Flt("finite", 0, 1)

Abs(x) == IF x < 0 THEN -x ELSE x

RECURSIVE GCD(_, _)
GCD(a, b) == IF b = 0 THEN a ELSE GCD(b, a % b)

\* The quotient p / q of the floating-point division, q # 0.
Ratio(p, q) ==
  LET g == GCD(Abs(p), Abs(q))
      sgn == IF q < 0 THEN -1 ELSE 1
  IN  Flt("finite", sgn * (p \div g), sgn * (q \div g))

\* x / y for doubles, y an integer value.
FltDiv(p, y) ==
  IF y # 0 THEN Ratio(p, y)
  ELSE IF p = 0 THEN Flt("nan", 0, 1)
  ELSE IF p > 0 THEN Flt("inf", 1, 1)
  ELSE Flt("inf", -1, 1)

\* x * k for a double x and a positive integer k.
FltMul(x, k) ==
  IF x.kind = "finite" THEN Ratio(x.num * k, x.den) ELSE x

\* Runner::Stats::SCALING_FACTOR_UNITS_PER_SECOND.
SCALING_FACTOR_UNITS_PER_SECOND == 1000

Stats(n, prompt_end, inference_end) ==
  [num_generated_tokens |-> n, prompt_eval_end_ms |-> prompt_end,
   inference_end_ms |-> inference_end]

\* The tps computed without the cast of eval_time to double: an integer
\* division for a positive eval_time.
TokensPerSecond_integer_division(stats) ==
  LET eval_time == stats.inference_end_ms - stats.prompt_eval_end_ms
  IN  IF eval_time > 0
        THEN Ratio((stats.num_generated_tokens \div eval_time)
                     * SCALING_FACTOR_UNITS_PER_SECOND, 1)
        ELSE FltMul(FltDiv(stats.num_generated_tokens, eval_time),
                    SCALING_FACTOR_UNITS_PER_SECOND)

\* The tps of onStats, lines 376-380.
TokensPerSecond(stats) ==
  LET eval_time == stats.inference_end_ms - stats.prompt_eval_end_ms
  IN  FltMul(FltDiv(stats.num_generated_tokens, eval_time),
             SCALING_FACTOR_UNITS_PER_SECOND)

\* A call of a method of the managed listener.
ListenerCall(method, text, tps) == [method |-> method, text |-> text, tps |-> tps]

\* onResult passing an empty string to the listener.
onResult_empty_text(calls, text) ==
  Append(calls, ListenerCall("onResult", NoJString, NoFlt))

\* onResult passing the text accumulated so far instead of the new piece.
onResult_accumulated(calls, text) ==
  LET prev == IF calls = <<>> THEN <<>> ELSE calls[Len(calls)].text.chars
  IN  Append(calls, ListenerCall("onResult", make_jstring(prev \o text), NoFlt))

\* ExecuTorchLlamaCallbackJni::onResult: the listener's calls after it.
onResult(calls, text) ==
  Append(calls, ListenerCall("onResult", make_jstring(text), NoFlt))

\* ExecuTorchLlamaCallbackJni::onStats: the listener's calls after it.
onStats(calls, stats) ==
  Append(calls, ListenerCall("onStats", NoJString, TokensPerSecond(stats)))

\* ExecuTorchLlamaJni::generate's return value, line 433.
generate_return(status) == 0

\* ExecuTorchLlamaJni::load's return value, line 441.
load_return(status) == status

\* ------------------------------------------------- the runner (external)
\* The pieces of text a generation may emit, and the statistics it may
\* report.
Tokens == { <<104>>, <<105, 33>> }

StatsValues ==
  { Stats(50, 1000, 3500), Stats(3, 1000, 1007),
    Stats(0, 2000, 2000), Stats(50, 2000, 2000) }

\* The statuses Runner::generate and Runner::load may return.
RunnerStatuses == {ErrorOk, 1, 18}


\* ExecuTorchLlamaJni::generate is entered; the runner starts generating.
GenerateCall ==
  /\ lpc = "idle"
  /\ lpc' = "running"
  /\ shouldStop' = FALSE
  /\ UNCHANGED <<plan, final_stats, runner_status, emitted, stats_emitted,
                 listener, stop_seen, generate_ret, load_status, load_ret>>
  /\ UNCHANGED mvars

\* The runner emits its next piece: the token callback calls onResult.
RunnerToken ==
  /\ lpc = "running"
  /\ ~shouldStop
  /\ Len(emitted) < Len(plan)
  /\ Len(emitted) < GenerateSeqLen
  /\ emitted' = Append(emitted, plan[Len(emitted) + 1])
  /\ listener' = onResult(listener, plan[Len(emitted) + 1])
  /\ UNCHANGED <<lpc, plan, final_stats, runner_status, stats_emitted,
                 shouldStop, stop_seen, generate_ret, load_status, load_ret>>
  /\ UNCHANGED mvars

\* The runner leaves its loop: all pieces emitted, or stop seen between two.
RunnerLoopEnd ==
  /\ lpc = "running"
  /\ runner_status = ErrorOk
  /\ shouldStop \/ Len(emitted) = Len(plan) \/ Len(emitted) = GenerateSeqLen
  /\ lpc' = "stats"
  /\ UNCHANGED <<plan, final_stats, runner_status, emitted, stats_emitted,
                 listener, shouldStop, stop_seen, generate_ret, load_status, load_ret>>
  /\ UNCHANGED mvars

\* The runner fails: it returns its error status without statistics.
RunnerFail ==
  /\ lpc = "running"
  /\ runner_status # ErrorOk
  /\ lpc' = "returning"
  /\ UNCHANGED <<plan, final_stats, runner_status, emitted, stats_emitted,
                 listener, shouldStop, stop_seen, generate_ret, load_status, load_ret>>
  /\ UNCHANGED mvars

\* The runner reports its statistics: the stats callback calls onStats.
RunnerStats ==
  /\ lpc = "stats"
  /\ final_stats # <<>>
  /\ stats_emitted' = stats_emitted + 1
  /\ listener' = onStats(listener, final_stats[1])
  /\ lpc' = "returning"
  /\ UNCHANGED <<plan, final_stats, runner_status, emitted, shouldStop,
                 stop_seen, generate_ret, load_status, load_ret>>
  /\ UNCHANGED mvars

\* The runner reports no statistics.
RunnerNoStats ==
  /\ lpc = "stats"
  /\ final_stats = <<>>
  /\ lpc' = "returning"
  /\ UNCHANGED <<plan, final_stats, runner_status, emitted, stats_emitted,
                 listener, shouldStop, stop_seen, generate_ret, load_status, load_ret>>
  /\ UNCHANGED mvars

\* Runner::generate has returned; ExecuTorchLlamaJni::generate returns.
GenerateReturn ==
  /\ lpc = "returning"
  /\ generate_ret' = Append(generate_ret, generate_return(runner_status))
  /\ lpc' = "done"
  /\ UNCHANGED <<plan, final_stats, runner_status, emitted, stats_emitted,
                 listener, shouldStop, stop_seen, load_status, load_ret>>
  /\ UNCHANGED mvars

\* ExecuTorchLlamaJni::stop, from any thread: Runner::stop sets the flag.
Stop ==
  /\ lpc # "off"
  /\ shouldStop' = TRUE
  /\ stop_seen' = (stop_seen \/ lpc \in {"running", "stats", "returning"})
  /\ UNCHANGED <<lpc, plan, final_stats, runner_status, emitted, stats_emitted,
                 listener, generate_ret, load_status, load_ret>>
  /\ UNCHANGED mvars

\* ExecuTorchLlamaJni::load, before any generation.
Load ==
  /\ lpc = "idle"
  /\ load_ret = <<>>
  /\ \E st \in RunnerStatuses :
       /\ load_status' = <<st>>
       /\ load_ret' = <<load_return(st)>>
  /\ UNCHANGED <<lpc, plan, final_stats, runner_status, emitted, stats_emitted,
                 listener, shouldStop, stop_seen, generate_ret>>
  /\ UNCHANGED mvars

\* -------------------------------------------------------- specifications
RegistryInit ==
  /\ jni_init_function_registry = StaticInitRegistry
  /\ registered = {}
  /\ initRuns = [f \in RegistrationFunctions |-> 0]
  /\ loaded = FALSE

ModuleIdle(p, r) ==
  /\ request = r
  /\ pc = p
  /\ result = NoResult
  /\ outcome = NoOutcome
  /\ native_status = <<>>
  /\ load_method_ret = <<>>

LlamaIdle(p, pl, fs, rs) ==
  /\ lpc = p
  /\ plan = pl
  /\ final_stats = fs
  /\ runner_status = rs
  /\ emitted = <<>>
  /\ stats_emitted = 0
  /\ listener = <<>>
  /\ shouldStop = FALSE
  /\ stop_seen = FALSE
  /\ generate_ret = <<>>
  /\ load_status = <<>>
  /\ load_ret = <<>>

\* The library before it is loaded, and one call on the module wrapper.
Init ==
  /\ RegistryInit
  /\ \E r \in Requests : ModuleIdle("idle", r)
  /\ LlamaIdle("off", <<>>, <<>>, ErrorOk)

Next == JNI_OnLoad \/ Execute \/ Forward \/ LoadMethod

Spec == Init /\ [][Next]_vars

\* The generation wrapper after the library is loaded: one generation, with
\* stop and load around it.  The entry points are the member functions of
\* ExecuTorchLlamaJni, however the host binds them.
LlamaInit ==
  /\ jni_init_function_registry = StaticInitRegistry
  /\ registered = RegisteredAfter(StaticInitRegistry, {})
  /\ initRuns = RunsAfter(StaticInitRegistry, [f \in RegistrationFunctions |-> 0])
  /\ loaded = TRUE
  /\ ModuleIdle("off", NoRequest)
  /\ \E pl \in SeqsUpTo(Tokens, MaxTokens),
        fs \in {<<>>} \cup { <<st>> : st \in StatsValues },
        rs \in RunnerStatuses :
       LlamaIdle("idle", pl, fs, rs)

RunnerStep ==
  RunnerToken \/ RunnerLoopEnd \/ RunnerFail \/ RunnerStats \/ RunnerNoStats
    \/ GenerateReturn

LlamaNext == GenerateCall \/ RunnerStep \/ Stop \/ Load

LlamaSpec == LlamaInit /\ [][LlamaNext]_vars

\* A generation that has been entered runs on: the calling thread is not
\* suspended for ever.
LlamaFairSpec == LlamaSpec /\ WF_vars(RunnerStep)

\* ------------------------------------------------- terms of the claims
\* A call of execute or forward has ended.
CallDone == pc = "done" /\ request.op \in {"execute", "forward"}

\* The method name execute_method was given.
CalledMethod == IF request.op = "forward" THEN "forward" ELSE request.method

\* The inputs whose type code is in S, in input order.
InputsOfCodes(S) == SelectSeq(request.inputs, LAMBDA x : x.mTypeCode \in S)

\* How many of the first i inputs have a type code in S.
CountOfCodes(i, S) == Cardinality({ k \in 1..i : request.inputs[k].mTypeCode \in S })

\* a * b, or 2^31-1 when the product is larger.
SatMul(a, b) ==
  IF a = 0 \/ b = 0 THEN 0
  ELSE IF a > 2147483647 \div b THEN 2147483647 ELSE a * b

RECURSIVE TrueNumel(_)
\* The mathematical product of the dimension sizes; a product of 2^31 or
\* more is given as 2^31-1, which no buffer capacity of the model equals.
TrueNumel(shape) ==
  IF shape = <<>> THEN 1 ELSE SatMul(Head(shape), TrueNumel(Tail(shape)))

\* The input is a tensor whose shape and buffer capacity disagree.
Mismatched(x) ==
  x.mTypeCode = kTypeCodeTensor /\ TrueNumel(x.tensor.shape) # x.tensor.capacity

\* The texts the listener's result method was called with, in call order.
ResultTexts(calls) ==
  LET f == SelectSeq(calls, LAMBDA c : c.method = "onResult")
  IN  [i \in 1..Len(f) |-> f[i].text]

\* The values the listener's stats method was called with, in call order.
StatsValuesSeen(calls) ==
  LET f == SelectSeq(calls, LAMBDA c : c.method = "onStats")
  IN  [i \in 1..Len(f) |-> f[i].tps]

\* ---------------------------------------------------------------- claims

\* C1: in execute/forward every input of type code Int, Double or Bool
\* reaches the module as a native value of that kind carrying the input's
\* own long, double or boolean.
C1_ScalarPayloadCarried ==
  (CallDone /\ outcome.invoked) =>
    \A i \in DOMAIN request.inputs :
      LET x == request.inputs[i]
          j == CountOfCodes(i, {kTypeCodeTensor, kTypeCodeDouble, kTypeCodeInt, kTypeCodeBool})
      IN  /\ x.mTypeCode = kTypeCodeInt => outcome.evalues[j] = EValueInt(x.long)
          /\ x.mTypeCode = kTypeCodeDouble => outcome.evalues[j] = EValueDouble(x.dbl)
          /\ x.mTypeCode = kTypeCodeBool => outcome.evalues[j] = EValueBool(x.bool)

\* C2: the arguments passed to the module are the inputs of type code 1..5,
\* one argument per such input, of that input's kind and in input order;
\* an input of another type code adds no argument.
C2_ArgumentsAreRecognizedInputs ==
  (CallDone /\ outcome.invoked) =>
    LET rec == InputsOfCodes(1..5)
    IN  /\ Len(outcome.evalues) = Len(rec)
        /\ \A j \in DOMAIN rec :
             j \in DOMAIN outcome.evalues
               /\ TagCode(outcome.evalues[j].tag) = rec[j].mTypeCode

\* C3: a tensor input whose shape's true element count differs from its
\* buffer capacity makes the call fail with the shape-mismatch error: the
\* module is not called and no tensor view is made for that input.
C3_ShapeMismatchRejected ==
  CallDone =>
    \A i \in DOMAIN request.inputs :
      Mismatched(request.inputs[i]) =>
        /\ ~outcome.invoked
        /\ Len(outcome.managed_tensors) < CountOfCodes(i, {kTypeCodeTensor})
        /\ Len(outcome.errors) = 1
        /\ (Len(outcome.managed_tensors) = CountOfCodes(i, {kTypeCodeTensor}) - 1
              => outcome.errors[1].kind = "ShapeMismatch")

\* C4: when the module's execute returns a status that is not success,
\* exactly one error is raised, carrying the method name and that status;
\* nothing is returned or encoded and execute was called once.
C4_FailureRaisedOnce ==
  (CallDone /\ outcome.invoked /\ result.error # ErrorOk) =>
    /\ outcome.errors = << JavaException("ExecutionFailed", CalledMethod, result.error, 0) >>
    /\ ~outcome.returned
    /\ outcome.jresult = <<>>
    /\ outcome.calls = 1

C4_Witness ==
  /\ CallDone /\ outcome.invoked
  /\ request.op = "execute" /\ request.method = "missing"
  /\ Len(request.inputs) = 2
  /\ result.error # ErrorOk
  /\ Len(outcome.errors) = 1

\* The managed value has the kind and the payload of the native one.
SameKindAndPayload(j, e) ==
  /\ j.mTypeCode = TagCode(e.tag)
  /\ e.tag = "Int" => j.long = e.int
  /\ e.tag = "Double" => j.dbl = e.dbl
  /\ e.tag = "Bool" => j.bool = e.bool
  /\ e.tag = "String" => j.str.chars = e.str
  /\ e.tag = "Tensor" =>
       /\ j.tensor.shape = e.tensor.sizes
       /\ j.tensor.data = e.tensor.data
       /\ j.tensor.dtype \in DOMAIN java_dtype_to_scalar_type
       /\ java_dtype_to_scalar_type[j.tensor.dtype] = e.tensor.scalar_type

FiveTags == {"Tensor", "Int", "Double", "Bool", "String"}

\* The k values returned come back as k managed values, element i having
\* the kind and payload of native value i.
ReturnedInOrder ==
  /\ outcome.returned
  /\ outcome.errors = <<>>
  /\ Len(outcome.jresult) = Len(result.values)
  /\ \A i \in DOMAIN result.values :
       SameKindAndPayload(outcome.jresult[i], result.values[i])

\* C5 as stated: whenever execute succeeds with values whose tags are all
\* among the five kinds, the call returns them encoded, in order.
C5_Original ==
  (CallDone /\ outcome.invoked /\ result.error = ErrorOk
     /\ \A i \in DOMAIN result.values : result.values[i].tag \in FiveTags)
    => ReturnedInOrder

\* C5, amended: whenever execute succeeds with values whose tags are all
\* among the five kinds and whose tensors all have a scalar type with a
\* managed dtype, the call returns them encoded, in order.
C5_Amended ==
  (CallDone /\ outcome.invoked /\ result.error = ErrorOk
     /\ \A i \in DOMAIN result.values :
          /\ result.values[i].tag \in FiveTags
          /\ result.values[i].tag = "Tensor" =>
               result.values[i].tensor.scalar_type \in DOMAIN scalar_type_to_java_dtype)
    => ReturnedInOrder

C5_Witness ==
  /\ CallDone /\ outcome.invoked /\ result.error = ErrorOk
  /\ Len(result.values) = 2
  /\ result.values[1].tag = "Tensor" /\ result.values[2].tag = "String"
  /\ outcome.returned
  /\ Len(outcome.jresult) = 2
  /\ outcome.jresult[1].mTypeCode = kTypeCodeTensor
  /\ outcome.jresult[2].mTypeCode = kTypeCodeString

\* C6: a status that is not success, returned by the native call of
\* loadMethod, load or generate, is the integer returned to the caller; for
\* execute/forward it is raised as an error.
C6_StatusSurfaced ==
  /\ (native_status # <<>> /\ native_status[1] # ErrorOk) => load_method_ret = native_status
  /\ (load_status # <<>> /\ load_status[1] # ErrorOk) => load_ret = load_status
  /\ (lpc = "done" /\ runner_status # ErrorOk) => generate_ret = <<runner_status>>
  /\ (CallDone /\ outcome.invoked /\ result.error # ErrorOk) => Len(outcome.errors) = 1

\* C7: once JNI_OnLoad has run, the entry points of both wrappers are in
\* the method table, and each function of the registry has run once.
C7_AllRegistered ==
  loaded =>
    /\ ExecuTorchJni_registerNatives \subseteq registered
    /\ ExecuTorchLlamaJni_registerNatives \subseteq registered
    /\ \A i \in DOMAIN jni_init_function_registry :
         initRuns[jni_init_function_registry[i]] = 1

\* C8: the listener's result method has been called once per piece the
\* runner emitted, with those texts in emission order; its stats method at
\* most once, once per statistics event, and after every result call; the
\* listener is not called before generate is entered.
C8_ListenerCalls ==
  /\ ResultTexts(listener) = [i \in 1..Len(emitted) |-> make_jstring(emitted[i])]
  /\ Len(StatsValuesSeen(listener)) = stats_emitted
  /\ stats_emitted <= 1
  /\ Len(listener) = Len(emitted) + stats_emitted
  /\ \A i, j \in DOMAIN listener :
       (i < j /\ listener[i].method = "onStats") => listener[j].method # "onResult"
  /\ lpc = "idle" => listener = <<>>

C8_Witness ==
  /\ lpc = "done"
  /\ Len(emitted) = 3
  /\ emitted[1] # emitted[2]
  /\ stats_emitted = 1
  /\ Len(listener) = 4
  /\ listener[4].method = "onStats"

\* The texts delivered to the listener are a prefix of the texts the
\* runner emits when it is not stopped.
DeliveredIsPrefix ==
  LET got == ResultTexts(listener)
  IN  /\ Len(got) <= Len(plan)
      /\ \A i \in DOMAIN got : got[i] = make_jstring(plan[i])

\* C9: a stop called while generate is in flight is followed by the return
\* of generate, and the results delivered are always a prefix, in order, of
\* the results of the unstopped generation.
C9_StopTerminatesUncorrupted ==
  /\ [] DeliveredIsPrefix
  /\ (stop_seen /\ lpc # "done") ~> (lpc = "done")

C9_Witness ==
  /\ stop_seen
  /\ lpc = "done"
  /\ Len(emitted) = 1
  /\ Len(plan) = 3
  /\ Len(ResultTexts(listener)) = 1

\* C10: the value given to the listener's stats method is
\* generated tokens / (inference end - prompt eval end) * 1000; it is 20
\* for 50 tokens in 2500 ms.
C10_TokensPerSecond ==
  \A i \in DOMAIN listener :
    listener[i].method = "onStats" =>
      LET st == final_stats[1]
          elapsed == st.inference_end_ms - st.prompt_eval_end_ms
          tps == listener[i].tps
      IN  /\ elapsed # 0 =>
               /\ tps.kind = "finite"
               /\ tps.num * elapsed = st.num_generated_tokens * 1000 * tps.den
          /\ (st.num_generated_tokens = 50 /\ elapsed = 2500) => tps = Flt("finite", 20, 1)

C10_Witness ==
  /\ lpc = "done"
  /\ final_stats = << Stats(50, 1000, 3500) >>
  /\ Len(listener) > 0
  /\ listener[Len(listener)].method = "onStats"
  /\ listener[Len(listener)].tps = Flt("finite", 20, 1)

====
